---------------------------- MODULE Spec2Model ----------------------------
(***************************************************************************)
(* Word-level language identification (eginhard/word-level-language-id).  *)
(*                                                                         *)
(* LanguageModel.py      : frequency lexicon + character n-gram model      *)
(* LanguageIdentifier.py : per-token score combiner and the two decoders   *)
(*                         (independent, Viterbi)                          *)
(*                                                                         *)
(* Strings are sequences of one-character strings.  Probabilities are      *)
(* exact positive rationals <<num, den>> in lowest terms.  A log-domain    *)
(* number is a record [k, fs] that stands for  k + ln(fs[1]) + ... +       *)
(* ln(fs[m]), the formal sum of its terms in the order they were added:    *)
(* math.log(r) is [k |-> 0, fs |-> <<r>>], the Python integers 0 and 1 are *)
(* [k |-> 0/1, fs |-> <<>>], += appends the terms, math.exp multiplies     *)
(* them out, and two sums are ordered exactly, through the quotient of     *)
(* their terms.  Arithmetic is that of the reals: the rounding of IEEE     *)
(* doubles is not modelled.                                                *)
(***************************************************************************)
EXTENDS Integers, Sequences, FiniteSets, TLC

(***************************************************************************)
(* Arithmetic                                                              *)
(***************************************************************************)
RECURSIVE Gcd(_, _)
Gcd(a, b) == IF b = 0 THEN a ELSE Gcd(b, a % b)

Rat(n, d) == LET g == Gcd(n, d) IN <<n \div g, d \div g>>

RMul(x, y) ==
    LET g1 == Gcd(x[1], y[2])
        g2 == Gcd(y[1], x[2])
    IN  <<(x[1] \div g1) * (y[1] \div g2), (x[2] \div g2) * (y[2] \div g1)>>

RDiv(x, y) == RMul(x, <<y[2], y[1]>>)

RAdd(x, y) ==
    LET g == Gcd(x[2], y[2])
    IN  Rat(x[1] * (y[2] \div g) + y[1] * (x[2] \div g), (x[2] \div g) * y[2])

\* 1 - x, for 0 <= x <= 1
ROneMinus(x) == <<x[2] - x[1], x[2]>>

RNat(c) == <<c, 1>>

\* math.log, the Python integers, and the log-domain sum
Log(r) == [k |-> 0, fs |-> <<r>>]
LogInt(c) == [k |-> c, fs |-> <<>>]
LogAdd(v, w) == [k |-> v.k + w.k, fs |-> v.fs \o w.fs]

RECURSIVE PartProd(_, _, _)
\* fs[1][part] * ... * fs[i][part]
PartProd(fs, part, i) == IF i = 0 THEN 1 ELSE PartProd(fs, part, i - 1) * fs[i][part]

\* fs[1] * ... * fs[i]
RProd(fs, i) == Rat(PartProd(fs, 1, i), PartProd(fs, 2, i))

\* Natural numbers of any size, as their digits to the base 10000, the
\* lowest first (the products a comparison needs exceed the machine integers)
RECURSIVE ToBig(_)
ToBig(c) == IF c < 10000 THEN <<c>> ELSE <<c % 10000>> \o ToBig(c \div 10000)

RECURSIVE ColumnSum(_, _, _, _)
\* the sum of x[j] * y[k + 1 - j] over j >= i
ColumnSum(x, y, k, i) ==
    IF i > Len(x) \/ i > k THEN 0
    ELSE (IF k + 1 - i <= Len(y) THEN x[i] * y[k + 1 - i] ELSE 0)
         + ColumnSum(x, y, k, i + 1)

RECURSIVE Carry(_, _, _, _)
\* the digits k, k+1, ... of x * y, given the carry c into digit k
Carry(x, y, k, c) ==
    IF k > Len(x) + Len(y) - 1 THEN (IF c = 0 THEN <<>> ELSE ToBig(c))
    ELSE LET t == ColumnSum(x, y, k, 1) + c
         IN  <<t % 10000>> \o Carry(x, y, k + 1, t \div 10000)

BigMul(x, y) ==
    IF Len(x) = 1 /\ Len(y) = 1 THEN ToBig(x[1] * y[1]) ELSE Carry(x, y, 1, 0)

RECURSIVE BigGeqFrom(_, _, _)
\* x >= y for numbers of the same length that agree above digit i
BigGeqFrom(x, y, i) ==
    IF i = 0 THEN TRUE
    ELSE IF x[i] # y[i] THEN x[i] > y[i]
    ELSE BigGeqFrom(x, y, i - 1)

BigGeq(x, y) ==
    IF Len(x) # Len(y) THEN Len(x) > Len(y) ELSE BigGeqFrom(x, y, Len(x))

RECURSIVE RQuot(_, _, _)
\* (xs[1] * ... * xs[i]) / (ys[1] * ... * ys[i]) as <<numerator, denominator>>
\* of any size, a missing term counting as 1
RQuot(xs, ys, i) ==
    IF i = 0 THEN <<ToBig(1), ToBig(1)>>
    ELSE LET x == IF i <= Len(xs) THEN xs[i] ELSE <<1, 1>>
             y == IF i <= Len(ys) THEN ys[i] ELSE <<1, 1>>
             rest == RQuot(xs, ys, i - 1)
         IN  IF x = y THEN rest
             ELSE IF x[2] = y[2]
             THEN <<BigMul(rest[1], ToBig(x[1])), BigMul(rest[2], ToBig(y[1]))>>
             ELSE <<BigMul(BigMul(rest[1], ToBig(x[1])), ToBig(y[2])),
                    BigMul(BigMul(rest[2], ToBig(y[1])), ToBig(x[2]))>>

\* A rational approximation of e (193/71, a continued-fraction convergent),
\* used only where the integer part of a log-domain number is not 0.
EulerApprox == <<193, 71>>

RECURSIVE RPow(_, _)
RPow(x, c) == IF c = 0 THEN <<1, 1>> ELSE RMul(x, RPow(x, c - 1))

\* math.exp of a log-domain number
Exp(v) ==
    IF v.k = 0 THEN RProd(v.fs, Len(v.fs))
    ELSE RMul(RPow(EulerApprox, v.k), RProd(v.fs, Len(v.fs)))

\* v >= w on log-domain numbers
LogGeq(v, w) ==
    LET m == IF Len(v.fs) >= Len(w.fs) THEN Len(v.fs) ELSE Len(w.fs)
        quot == RQuot(v.fs, w.fs, m)
        e == RPow(EulerApprox, IF v.k >= w.k THEN v.k - w.k ELSE w.k - v.k)
    IN  IF v.k = w.k THEN BigGeq(quot[1], quot[2])
        ELSE IF v.k > w.k
        THEN BigGeq(BigMul(quot[1], ToBig(e[1])), BigMul(quot[2], ToBig(e[2])))
        ELSE BigGeq(BigMul(quot[1], ToBig(e[2])), BigMul(quot[2], ToBig(e[1])))

RECURSIVE SetSum(_, _)
SetSum(f, S) ==
    IF S = {} THEN 0
    ELSE LET x == CHOOSE y \in S : TRUE IN f[x] + SetSum(f, S \ {x})

Min(a, b) == IF a <= b THEN a ELSE b

(***************************************************************************)
(* Strings                                                                 *)
(***************************************************************************)
\* Python s[a:b] (0-based, half-open, clipped to the string)
Slice(s, a, b) == SubSeq(s, a + 1, Min(b, Len(s)))

\* str.lower() on the characters the model uses
LowerChar(c) ==
    CASE c = "A" -> "a"
      [] c = "B" -> "b"
      [] c = "E" -> "e"
      [] c = "S" -> "s"
      [] OTHER -> c

lower(w) == [i \in 1..Len(w) |-> LowerChar(w[i])]

\* int(): decimal digits only
Digits == {"0", "1", "2", "3", "4", "5", "6", "7", "8", "9"}

DigitVal(c) ==
    CASE c = "0" -> 0 [] c = "1" -> 1 [] c = "2" -> 2 [] c = "3" -> 3
      [] c = "4" -> 4 [] c = "5" -> 5 [] c = "6" -> 6 [] c = "7" -> 7
      [] c = "8" -> 8 [] c = "9" -> 9

IsInt(field) == Len(field) > 0 /\ \A i \in 1..Len(field) : field[i] \in Digits

RECURSIVE int(_)
int(field) ==
    IF Len(field) = 0 THEN 0
    ELSE 10 * int(SubSeq(field, 1, Len(field) - 1)) + DigitVal(field[Len(field)])

(***************************************************************************)
(* LanguageModel: class constants                                          *)
(***************************************************************************)
START == "<"
END == ">"
UNKNOWN == <<"U", "N", "K", "N", "O", "W", "N">>
OOV == <<"#", "#", "#">>
CASE_SENSITIVITY_THRESHOLD == 4

\* A lexicon file is a sequence of lines, a line the list of its
\* whitespace-separated fields (line.strip().split()), a field a string.
\* The exception the line raises in load_lexicon and in train:
\* fields[0] / fields[1] out of range, or int() of a non-number.
LineError(fields) ==
    IF Len(fields) < 2 THEN "IndexError"
    ELSE IF ~IsInt(fields[2]) THEN "ValueError"
    ELSE "none"

FileError(file) ==
    IF \A l \in 1..Len(file) : LineError(file[l]) = "none" THEN "none"
    ELSE LineError(file[CHOOSE l \in 1..Len(file) :
                          /\ LineError(file[l]) # "none"
                          /\ \A m \in 1..(l - 1) : LineError(file[m]) = "none"])

(***************************************************************************)
(* LanguageModel.load_lexicon, lex_score                                   *)
(***************************************************************************)
\* the smoothing value of load_lexicon, 0.1
LexLamb == <<1, 10>>

NormWord(w) == IF Len(w) >= CASE_SENSITIVITY_THRESHOLD THEN lower(w) ELSE w

load_lexicon(file) ==
    IF FileError(file) # "none" THEN [err |-> FileError(file), lex |-> <<>>]
    ELSE
    LET lines == 1..Len(file)
        freq == [l \in lines |-> int(file[l][2])]
        total == SetSum(freq, lines)
        words == {NormWord(file[l][1]) : l \in lines} \cup {OOV}
        count(w) ==
            IF w = OOV THEN LexLamb
            ELSE RAdd(LexLamb,
                      RNat(SetSum(freq, {l \in lines : NormWord(file[l][1]) = w})))
        denom == RAdd(RNat(total), RMul(LexLamb, RNat(Cardinality(words))))
    IN  [err |-> "none", lex |-> [w \in words |-> Log(RDiv(count(w), denom))]]

lex_score(m, word) ==
    LET w == NormWord(word)
    IN  IF w \in DOMAIN m.lex THEN m.lex[w] ELSE m.lex[OOV]

(***************************************************************************)
(* LanguageModel.word2ngrams, train, char_score                            *)
(***************************************************************************)
word2ngrams(word, n) ==
    LET w1 == <<START>> \o word \o <<END>>
        w2 == IF n >= 4 THEN <<START>> \o w1 \o <<END>> ELSE w1
    IN  [i \in 1..(IF Len(w2) - n + 1 > 0 THEN Len(w2) - n + 1 ELSE 0) |->
            Slice(w2, i - 1, i - 1 + n)]

\* the padded token train counts from
TrainToken(fields) == <<START>> \o fields[1] \o <<END>>

\* train: the tables after the call.  smooth_lambda is the rational lamb.
train(m, file, lamb) ==
    IF FileError(file) # "none"
    THEN [err |-> FileError(file), start_prob |-> m.start_prob,
          trans_prob |-> m.trans_prob]
    ELSE
    LET n == m.n
        lines == 1..Len(file)
        token == [l \in lines |-> TrainToken(file[l])]
        freq == [l \in lines |-> int(file[l][2])]
        token_total == SetSum(freq, lines)
        charset == UNION {{token[l][i] : i \in 1..Len(token[l])} : l \in lines}
        starts == {Slice(token[l], 0, n) : l \in lines}
        start_count(g) ==
            RAdd(lamb, RNat(SetSum(freq, {l \in lines : Slice(token[l], 0, n) = g})))
        \* one occurrence <<l, i>> per transition of a line
        occ == UNION {{<<l, i>> : i \in 0..(Len(token[l]) - n - 1)} : l \in lines}
        occfreq == [o \in occ |-> freq[o[1]]]
        src(o) == Slice(token[o[1]], o[2], o[2] + n)
        dst(o) == Slice(token[o[1]], o[2] + 1, o[2] + n + 1)
        sources == {src(o) : o \in occ}
        nexts(g) == {dst(o) : o \in {p \in occ : src(p) = g}}
        trans_count(g, h) ==
            RAdd(lamb, RNat(SetSum(occfreq, {o \in occ : src(o) = g /\ dst(o) = h})))
        trans_total(g) == SetSum(occfreq, {o \in occ : src(o) = g})
        sdenom == RAdd(RNat(token_total), RMul(lamb, RNat(Cardinality(starts) + 1)))
        tdenom(g) ==
            RAdd(RNat(trans_total(g)), RMul(lamb, RNat(Cardinality(nexts(g)) + 1)))
        unk == [h \in {UNKNOWN} |-> Log(<<1, Cardinality(charset) + 1>>)]
        row(g) ==
            [h \in nexts(g) \cup {UNKNOWN} |->
                IF h \in nexts(g) THEN Log(RDiv(trans_count(g, h), tdenom(g)))
                ELSE Log(RDiv(lamb, tdenom(g)))]
    IN  [err |-> "none",
         start_prob |->
            [g \in DOMAIN m.start_prob \cup starts \cup {UNKNOWN} |->
                IF g = UNKNOWN THEN Log(RDiv(lamb, sdenom))
                ELSE IF g \in starts THEN Log(RDiv(start_count(g), sdenom))
                ELSE m.start_prob[g]],
         trans_prob |->
            [g \in DOMAIN m.trans_prob \cup {UNKNOWN} \cup sources |->
                IF g \in sources THEN row(g)
                ELSE IF g = UNKNOWN THEN unk
                ELSE m.trans_prob[g]]]


\* one summand of char_score: [err, v]
StartTerm(m, ngrams) ==
    IF ngrams[1] \in DOMAIN m.start_prob
    THEN [err |-> "none", v |-> m.start_prob[ngrams[1]]]
    ELSE IF UNKNOWN \in DOMAIN m.start_prob
    THEN [err |-> "none", v |-> m.start_prob[UNKNOWN]]
    ELSE [err |-> "KeyError", v |-> LogInt(0)]

TransTerm(m, g, h) ==
    IF g \notin DOMAIN m.trans_prob
    THEN IF UNKNOWN \in DOMAIN m.trans_prob /\ UNKNOWN \in DOMAIN m.trans_prob[UNKNOWN]
         THEN [err |-> "none", v |-> m.trans_prob[UNKNOWN][UNKNOWN]]
         ELSE [err |-> "KeyError", v |-> LogInt(0)]
    ELSE IF h \notin DOMAIN m.trans_prob[g]
    THEN IF UNKNOWN \in DOMAIN m.trans_prob[g]
         THEN [err |-> "none", v |-> m.trans_prob[g][UNKNOWN]]
         ELSE [err |-> "KeyError", v |-> LogInt(0)]
    ELSE [err |-> "none", v |-> m.trans_prob[g][h]]

RECURSIVE TransSum(_, _, _)
\* logp after the transitions 0..i-1 have been added to acc
TransSum(m, ngrams, i) ==
    IF i = 0 THEN StartTerm(m, ngrams)
    ELSE LET acc == TransSum(m, ngrams, i - 1)
             t == TransTerm(m, ngrams[i], ngrams[i + 1])
         IN  IF acc.err # "none" THEN acc
             ELSE IF t.err # "none" THEN t
             ELSE [err |-> "none", v |-> LogAdd(acc.v, t.v)]

char_score(m, word) ==
    LET ngrams == word2ngrams(word, m.n)
    IN  IF Len(ngrams) = 0 THEN [err |-> "IndexError", v |-> LogInt(0)]
        ELSE TransSum(m, ngrams, Len(ngrams) - 1)

\* char_score takes no UNKNOWN fallback on the word
UsesOnlyDirectEntries(m, word) ==
    LET ngrams == word2ngrams(word, m.n)
    IN  /\ Len(ngrams) > 0
        /\ ngrams[1] \in DOMAIN m.start_prob
        /\ \A i \in 1..(Len(ngrams) - 1) :
              /\ ngrams[i] \in DOMAIN m.trans_prob
              /\ ngrams[i + 1] \in DOMAIN m.trans_prob[ngrams[i]]

(***************************************************************************)
(* LanguageIdentifier                                                      *)
(***************************************************************************)
FR == "ga"
EN == "en"
IGNORE == <<"#", "#", "I", "G", "N", "O", "R", "E", "#", "#">>
SEA == <<"s", "e", "a">>

\* the iteration order [self.FR, self.EN]
langs == <<FR, EN>>
Langs == {FR, EN}

\* the dictionary {self.FR: a, self.EN: b}
ByLang(a, b) == [ga |-> a, en |-> b]

ScoreError(e) == [err |-> e, fallback |-> FALSE, v |-> ByLang(LogInt(0), LogInt(0))]

\* score, once the raw (exponentiated) scores of the word are known:
\* the relative scores, the test for "in neither lexicon", the weighting
weighted_score(lex_weight, lex_s, char_s, oov_s) ==
    LET lex_score_rel ==
            ByLang(RDiv(lex_s[FR], RAdd(lex_s[FR], lex_s[EN])),
                   RDiv(lex_s[EN], RAdd(lex_s[FR], lex_s[EN])))
        char_score_rel ==
            ByLang(RDiv(char_s[FR], RAdd(char_s[FR], char_s[EN])),
                   RDiv(char_s[EN], RAdd(char_s[FR], char_s[EN])))
        neither == lex_s[FR] = oov_s[FR] /\ lex_s[EN] = oov_s[EN]
        combined(lang) ==
            RAdd(RMul(lex_weight, lex_score_rel[lang]),
                 RMul(ROneMinus(lex_weight), char_score_rel[lang]))
        weighted ==
            IF neither THEN char_score_rel
            ELSE ByLang(combined(FR), combined(EN))
    IN  IF weighted[FR][1] = 0 \/ weighted[EN][1] = 0
        THEN ScoreError("ValueError")
        ELSE [err |-> "none", fallback |-> neither,
              v |-> ByLang(Log(weighted[FR]), Log(weighted[EN]))]

\* score: [err, fallback, v], v the weighted log probability per language
score(model, lex_weight, word) ==
    IF word = IGNORE
    THEN [err |-> "none", fallback |-> FALSE, v |-> ByLang(LogInt(1), LogInt(1))]
    ELSE
    LET cs == ByLang(char_score(model[FR], word), char_score(model[EN], word))
    IN  IF cs[FR].err # "none" THEN ScoreError(cs[FR].err)
        ELSE IF cs[EN].err # "none" THEN ScoreError(cs[EN].err)
        ELSE weighted_score(
                lex_weight,
                ByLang(Exp(lex_score(model[FR], word)), Exp(lex_score(model[EN], word))),
                ByLang(Exp(cs[FR].v), Exp(cs[EN].v)),
                ByLang(Exp(lex_score(model[FR], OOV)), Exp(lex_score(model[EN], OOV))))

RECURSIVE max_from_last(_, _, _)
\* a maximum search that moves on to a later element that is as great
max_from_last(terms, held, i) ==
    IF i > Len(terms) THEN held
    ELSE max_from_last(terms, IF LogGeq(terms[i], terms[held]) THEN i ELSE held, i + 1)

RECURSIVE max_from(_, _, _)
\* max() keeps the element it holds unless a later one is strictly greater
max_from(terms, held, i) ==
    IF i > Len(terms) THEN held
    ELSE max_from(terms, IF LogGeq(terms[held], terms[i]) THEN held ELSE i, i + 1)

\* max(enumerate(iterable), key=lambda x: x[1]): the first maximal element,
\* as <<0-based index, value>>
max_argmax(terms) ==
    LET i == max_from(terms, 1, 2)
    IN  <<i - 1, terms[i]>>

trans_p(transition_probability) ==
    ByLang(ByLang(transition_probability, ROneMinus(transition_probability)),
           ByLang(ROneMinus(transition_probability), transition_probability))

\* the recurrence without the cost of switching the language
term_without_transition(Vprev, tp, scores, lang2, lang) ==
    LogAdd(Vprev[lang2], scores[lang])

\* V[t-1][lang2] + math.log(trans_p[lang2][lang]) + scores[lang]
term(Vprev, tp, scores, lang2, lang) ==
    LogAdd(LogAdd(Vprev[lang2], Log(tp[lang2][lang])), scores[lang])

\* max_argmax(term for lang2 in langs)
best(Vprev, tp, scores, lang) ==
    max_argmax(<<term(Vprev, tp, scores, langs[1], lang),
                 term(Vprev, tp, scores, langs[2], lang)>>)

\* one round of the loop over t: the entries V[t], S[t]
viterbi_step(Vprev, tp, scores) ==
    LET b == ByLang(best(Vprev, tp, scores, FR), best(Vprev, tp, scores, EN))
    IN  [V |-> ByLang(b[FR][2], b[EN][2]),
         S |-> ByLang(langs[b[FR][1] + 1], langs[b[EN][1] + 1])]

RECURSIVE viterbi_tables(_, _, _, _)
\* the tables V and S for the positions 0..t (sc[i] the scores of token i-1)
viterbi_tables(sc, transition_probability, start_probability, t) ==
    IF t = 0
    THEN <<[V |-> ByLang(LogAdd(Log(start_probability), sc[1][FR]),
                         LogAdd(Log(ROneMinus(start_probability)), sc[1][EN])),
            S |-> <<>>]>>
    ELSE LET prev == viterbi_tables(sc, transition_probability, start_probability, t - 1)
         IN  Append(prev, viterbi_step(prev[t].V, trans_p(transition_probability),
                                       sc[t + 1]))

RECURSIVE backtrack(_, _)
\* languages[t:] (t 0-based) of the reconstructed path
backtrack(tab, t) ==
    IF t = Len(tab) - 1
    THEN <<langs[max_argmax(<<tab[Len(tab)].V[langs[1]],
                              tab[Len(tab)].V[langs[2]]>>)[1] + 1]>>
    ELSE LET rest == backtrack(tab, t + 1)
         IN  <<tab[t + 2].S[rest[1]]>> \o rest

RECURSIVE scores_upto(_, _, _, _)
\* the results of score(tokens[0]), ..., score(tokens[i-1]), in call order
scores_upto(model, lex_weight, tokens, i) ==
    IF i = 0 THEN <<>>
    ELSE Append(scores_upto(model, lex_weight, tokens, i - 1),
                score(model, lex_weight, tokens[i]))

\* the position (1-based) of the first token whose score raises, 0 if none
FirstScoreError(sc) ==
    IF \A i \in 1..Len(sc) : sc[i].err = "none" THEN 0
    ELSE CHOOSE i \in 1..Len(sc) :
            /\ sc[i].err # "none"
            /\ \A j \in 1..(i - 1) : sc[j].err = "none"

Raise(e, n) == [ret |-> "raise", err |-> e, labels |-> <<>>, nscore |-> n]
Return(labels, n) == [ret |-> "list", err |-> "none", labels |-> labels, nscore |-> n]
ReturnNone == [ret |-> "None", err |-> "none", labels |-> <<>>, nscore |-> 0]

RECURSIVE independent_labels_strict(_, _)
\* the first language only where its score is strictly greater
independent_labels_strict(sc, i) ==
    IF i = 0 THEN <<>>
    ELSE Append(independent_labels_strict(sc, i - 1),
                IF ~LogGeq(sc[i].v[EN], sc[i].v[FR]) THEN FR ELSE EN)

RECURSIVE independent_labels(_, _)
independent_labels(sc, i) ==
    IF i = 0 THEN <<>>
    ELSE Append(independent_labels(sc, i - 1),
                IF LogGeq(sc[i].v[FR], sc[i].v[EN]) THEN FR ELSE EN)

identify_independent(model, lex_weight, tokens) ==
    LET sc == scores_upto(model, lex_weight, tokens, Len(tokens))
        bad == FirstScoreError(sc)
    IN  IF bad # 0 THEN Raise(sc[bad].err, bad)
        ELSE Return(independent_labels(sc, Len(tokens)), Len(tokens))

RECURSIVE emissions(_, _)
emissions(sc, i) == IF i = 0 THEN <<>> ELSE Append(emissions(sc, i - 1), sc[i].v)

\* identify_viterbi with a guard that answers the empty sequence with []
identify_viterbi_guarded(model, lex_weight, tokens, transition_probability, start_probability) ==
    IF Len(tokens) = 0 THEN Return(<<>>, 0)
    ELSE
    LET sc == scores_upto(model, lex_weight, tokens, Len(tokens))
        bad == FirstScoreError(sc)
    IN  IF bad # 0 THEN Raise(sc[bad].err, bad)
        ELSE Return(backtrack(viterbi_tables(emissions(sc, Len(sc)),
                                             transition_probability,
                                             start_probability, Len(tokens) - 1),
                              0),
                    Len(tokens))

identify_viterbi(model, lex_weight, tokens, transition_probability, start_probability) ==
    IF Len(tokens) = 0 THEN Raise("IndexError", 0)
    ELSE
    LET sc == scores_upto(model, lex_weight, tokens, Len(tokens))
        bad == FirstScoreError(sc)
    IN  IF bad # 0 THEN Raise(sc[bad].err, bad)
        ELSE Return(backtrack(viterbi_tables(emissions(sc, Len(sc)),
                                             transition_probability,
                                             start_probability, Len(tokens) - 1),
                              0),
                    Len(tokens))

\* identify with the override comparing the token as it is written
identify_case_sensitive(model, lex_weight, tokens, method, transition_probability, start_probability) ==
    IF FR = "ga" /\ Len(tokens) = 1 /\ tokens[1] = SEA
    THEN Return(<<FR>>, 0)
    ELSE IF method = "independent"
    THEN identify_independent(model, lex_weight, tokens)
    ELSE IF method = "viterbi"
    THEN identify_viterbi(model, lex_weight, tokens,
                          transition_probability, start_probability)
    ELSE ReturnNone

identify(model, lex_weight, tokens, method, transition_probability, start_probability) ==
    IF FR = "ga" /\ Len(tokens) = 1 /\ lower(tokens[1]) = SEA
    THEN Return(<<FR>>, 0)
    ELSE IF method = "independent"
    THEN identify_independent(model, lex_weight, tokens)
    ELSE IF method = "viterbi"
    THEN identify_viterbi(model, lex_weight, tokens,
                          transition_probability, start_probability)
    ELSE ReturnNone

\* score that enters the word it looked up into the lexicons (as a
\* setdefault in lex_score would)
score_effect_setdefault(model, word) ==
    [lang \in Langs |->
        [model[lang] EXCEPT !.lex =
            IF NormWord(word) \in DOMAIN model[lang].lex THEN model[lang].lex
            ELSE model[lang].lex @@ (NormWord(word) :> model[lang].lex[OOV])]]

\* The tables of the two models after score(word) returned or raised:
\* lex.get, "in keys()" and indexing read the dictionaries and never insert.
score_effect(model, word) == model

RECURSIVE identify_effect(_, _, _)
\* ... and after an identify call that made the first n of its score calls
identify_effect(model, tokens, n) ==
    IF n = 0 THEN model
    ELSE score_effect(identify_effect(model, tokens, n - 1), tokens[n])

(***************************************************************************)
(* Inputs                                                                  *)
(***************************************************************************)
MaxN == 4
MaxTokens == 3

Line(word, freq) == <<word, freq>>

\* Frequency lexicons on disk (one word and its frequency per line): those
\* of the first language and those of English
LexFilesFR ==
    { <<Line(<<"a">>, <<"1">>), Line(<<"S", "e", "a">>, <<"2">>)>>,
      <<Line(<<"S", "e", "a", "s">>, <<"2">>), Line(OOV, <<"1">>),
        Line(<<"b">>, <<"0">>)>> }

LexFilesEN ==
    { <<Line(<<"a">>, <<"2">>), Line(<<"b">>, <<"1">>)>>,
      <<Line(<<"S", "e", "a", "s">>, <<"2">>), Line(OOV, <<"1">>),
        Line(<<"b">>, <<"0">>)>> }

\* Lines that are not "word frequency": a blank line, a line without the
\* frequency field, a frequency that is not a number
MalformedLines == {<<>>, <<<<"b">>>>, <<<<"b">>, <<"x">>>>}

\* smooth_lambda of train (any positive value; the default 0.001 gives the
\* same tables up to the size of the numbers)
Lambdas == {<<1, 1>>}

\* lex_weight of the identifier (default 1)
LexWeights == {<<1, 1>>}

\* the language codes passed to LanguageIdentifier(fr, en, ...)
LangCodes == {"ga", "fr"}

Tokens == {<<>>, <<"a">>, <<"S", "e", "a">>, IGNORE}
ScoreTokens == Tokens \cup {<<"b">>, OOV, <<"S", "E", "A", "S">>}
TokenSeqs == UNION {[1..k -> Tokens] : k \in 0..MaxTokens}
Methods == {"independent", "viterbi", "other"}
TransProbs == {<<1, 2>>, <<3, 4>>}
StartProbs == {<<1, 2>>, <<3, 4>>}

(***************************************************************************)
(* State                                                                   *)
(***************************************************************************)
VARIABLES
    lex_file,     \* lex_file[lang]: the lexicon file of the language
    ngram,        \* the n-gram order train.py builds the models with
    lm,           \* lm[lang]: the LanguageModel object of train.py
    model_file,   \* model_file[lang]: the dumped model
    ident,        \* the LanguageIdentifier object of identify.py (served: it
                  \* has completed a score or identify call before)
    call          \* the call in progress and what it returns or raises to the
                  \* caller; op = "none" once the caller has taken the result

vars == <<lex_file, ngram, lm, model_file, ident, call>>

NoTables == [n |-> 0, lex |-> <<>>, start_prob |-> <<>>, trans_prob |-> <<>>]
NoScores == ByLang(LogInt(0), LogInt(0))

Call(op, lang, tokens, method, p, q, res, fallback, v) ==
    [op |-> op, lang |-> lang, tokens |-> tokens, method |-> method,
     p |-> p, q |-> q, ret |-> res.ret, err |-> res.err, labels |-> res.labels,
     nscore |-> res.nscore, fallback |-> fallback, v |-> v]

NoCall == Call("none", "", <<>>, "", <<1, 2>>, <<1, 2>>, ReturnNone, FALSE, NoScores)

Outcome(e) == IF e = "none" THEN ReturnNone ELSE Raise(e, 0)

Init ==
    /\ lex_file \in {ByLang(f, e) : f \in LexFilesFR, e \in LexFilesEN}
    /\ ngram \in 1..MaxN
    /\ lm = [lang \in Langs |-> [state |-> "none", trained |-> FALSE, tables |-> NoTables]]
    /\ model_file = [lang \in Langs |-> [present |-> FALSE, tables |-> NoTables]]
    /\ ident = [built |-> FALSE, fr |-> "", en |-> "", lex_weight |-> <<1, 1>>,
                model |-> [lang \in Langs |-> NoTables], served |-> FALSE]
    /\ call = NoCall

\* LanguageModel(language, ngram, lex_file): train.py builds the two objects
NewLanguageModel(lang) ==
    /\ call.op = "none"
    /\ lm[lang].state = "none"
    /\ LET r == load_lexicon(lex_file[lang])
       IN  /\ lm' = [lm EXCEPT ![lang] =
                        IF r.err = "none"
                        THEN [state |-> "built", trained |-> FALSE,
                              tables |-> [n |-> ngram, lex |-> r.lex,
                                          start_prob |-> <<>>, trans_prob |-> <<>>]]
                        ELSE [state |-> "failed", trained |-> FALSE, tables |-> NoTables]]
           /\ call' = Call("LanguageModel", lang, <<>>, "", <<1, 2>>, <<1, 2>>,
                           Outcome(r.err), FALSE, NoScores)
    /\ UNCHANGED <<lex_file, ngram, model_file, ident>>

\* The lexicon file is edited on disk while the models are prepared (before
\* the model of the language is trained): a malformed line gets in, as the
\* first or as the last line.
EditLexicon(lang) ==
    /\ call.op = "none"
    /\ lm[lang].state \in {"none", "built"}
    /\ ~lm[lang].trained
    /\ FileError(lex_file[lang]) = "none"
    /\ \E line \in MalformedLines :
          \/ lex_file' = [lex_file EXCEPT ![lang] = <<line>> \o @]
          \/ lex_file' = [lex_file EXCEPT ![lang] = Append(@, line)]
    /\ UNCHANGED <<ngram, lm, model_file, ident, call>>

\* train that enters the UNKNOWN rows before it reads the lexicon
Train_unknown_first(lang, lamb) ==
    /\ call.op = "none"
    /\ lm[lang].state = "built"
    /\ LET r == train(lm[lang].tables, lex_file[lang], lamb)
       IN  /\ lm' = [lm EXCEPT ![lang].tables.start_prob =
                                  IF r.err = "none" THEN r.start_prob
                                  ELSE @ @@ (UNKNOWN :> LogInt(0)),
                               ![lang].tables.trans_prob = r.trans_prob,
                               ![lang].trained = @ \/ r.err = "none"]
           /\ call' = Call("train", lang, <<>>, "", <<1, 2>>, <<1, 2>>,
                           Outcome(r.err), FALSE, NoScores)
    /\ UNCHANGED <<lex_file, ngram, model_file, ident>>

\* lm.train(smooth_lambda)
Train(lang, lamb) ==
    /\ call.op = "none"
    /\ lm[lang].state = "built"
    /\ LET r == train(lm[lang].tables, lex_file[lang], lamb)
       IN  /\ lm' = [lm EXCEPT ![lang].tables.start_prob = r.start_prob,
                               ![lang].tables.trans_prob = r.trans_prob,
                               ![lang].trained = @ \/ r.err = "none"]
           /\ call' = Call("train", lang, <<>>, "", <<1, 2>>, <<1, 2>>,
                           Outcome(r.err), FALSE, NoScores)
    /\ UNCHANGED <<lex_file, ngram, model_file, ident>>

\* lm.dump(file_name), which train.py calls once train has returned
Dump(lang) ==
    /\ call.op = "none"
    /\ lm[lang].state = "built"
    /\ lm[lang].trained
    /\ model_file' = [model_file EXCEPT ![lang] =
                        [present |-> TRUE, tables |-> [lm[lang].tables EXCEPT !.lex = <<>>]]]
    /\ call' = Call("dump", lang, <<>>, "", <<1, 2>>, <<1, 2>>, ReturnNone, FALSE, NoScores)
    /\ UNCHANGED <<lex_file, ngram, lm, ident>>

\* LanguageModel.load(model_file, lex_file, lex_weight)
load(lang) ==
    LET r == load_lexicon(lex_file[lang])
    IN  [err |-> r.err,
         tables |-> [model_file[lang].tables EXCEPT !.lex = r.lex]]

\* LanguageIdentifier(fr, en, model_file_fr, model_file_en, lex_file_fr,
\* lex_file_en, lex_weight): the codes fr and en are not stored; the models
\* are filed under the class constants FR and EN.
NewLanguageIdentifier(fr, en, lex_weight) ==
    /\ call.op = "none"
    /\ ~ident.built
    /\ \A lang \in Langs : model_file[lang].present
    /\ LET e == IF load(FR).err # "none" THEN load(FR).err ELSE load(EN).err
           m == [lang \in Langs |-> load(lang).tables]
       IN  /\ ident' = IF e = "none"
                       THEN [built |-> TRUE, fr |-> fr, en |-> en,
                             lex_weight |-> lex_weight, model |-> m, served |-> FALSE]
                       ELSE ident
           /\ call' = Call("LanguageIdentifier", "", <<>>, "", <<1, 2>>, <<1, 2>>,
                           Outcome(e), FALSE, NoScores)
    /\ UNCHANGED <<lex_file, ngram, lm, model_file>>

\* identifier.score(word)
Score ==
    /\ call.op = "none"
    /\ ident.built
    /\ \E word \in ScoreTokens :
          LET r == score(ident.model, ident.lex_weight, word)
          IN  /\ call' = Call("score", "", <<word>>, "", <<1, 2>>, <<1, 2>>,
                              IF r.err = "none" THEN Return(<<>>, 1) ELSE Raise(r.err, 1),
                              r.fallback, r.v)
              /\ ident' = [ident EXCEPT !.model = score_effect(@, word)]
    /\ UNCHANGED <<lex_file, ngram, lm, model_file>>

\* identifier.identify(tokens, method, transition_probability, start_probability)
\* (the two probabilities are read in viterbi mode only)
Identify ==
    /\ call.op = "none"
    /\ ident.built
    /\ \E tokens \in TokenSeqs, method \in Methods, p \in TransProbs, q \in StartProbs :
          /\ method # "viterbi" => (p = <<1, 2>> /\ q = <<1, 2>>)
          /\ LET r == identify(ident.model, ident.lex_weight, tokens, method, p, q)
             IN  /\ call' = Call("identify", "", tokens, method, p, q, r, FALSE, NoScores)
                 /\ ident' = [ident EXCEPT !.model = identify_effect(@, tokens, r.nscore)]
    /\ UNCHANGED <<lex_file, ngram, lm, model_file>>

\* The calls are synchronous: the caller takes what the call returned (or
\* catches what it raised) before it makes the next one.
Took ==
    /\ call.op # "none"
    /\ call' = NoCall
    /\ ident' = [ident EXCEPT !.served = @ \/ call.op \in {"score", "identify"}]
    /\ UNCHANGED <<lex_file, ngram, lm, model_file>>

Next ==
    \/ \E lang \in Langs : NewLanguageModel(lang)
    \/ \E lang \in Langs : EditLexicon(lang)
    \/ \E lang \in Langs, lamb \in Lambdas : Train(lang, lamb)
    \/ \E lang \in Langs : Dump(lang)
    \/ \E fr \in LangCodes, lex_weight \in LexWeights :
          NewLanguageIdentifier(fr, "en", lex_weight)
    \/ Score
    \/ Identify
    \/ Took

Spec == Init /\ [][Next]_vars

(***************************************************************************)
(* Properties                                                              *)
(***************************************************************************)
Decoded == call.op = "identify" /\ call.method \in {"independent", "viterbi"}

\* C1: for every non-empty token sequence and either mode, identify returns
\* a list with exactly one label per input token.
C1_OneLabelPerToken ==
    (Decoded /\ call.tokens # <<>>)
        => (call.ret = "list" /\ Len(call.labels) = Len(call.tokens))

\* C2: every label identify returns, the override included, is one of the
\* two language codes the identifier was constructed with.
C2_ConfiguredLabels ==
    (call.op = "identify" /\ call.ret = "list")
        => \A i \in 1..Len(call.labels) : call.labels[i] \in {ident.fr, ident.en}

RECURSIVE PathScore(_, _, _, _, _)
\* The total log score of the labels path[1..t]: the log start prior of
\* path[1], the emission score em[i][path[i]] of every token and the log
\* transition probability of every adjacent pair of labels.
PathScore(em, p, q, path, t) ==
    IF t = 1
    THEN LogAdd(Log(IF path[1] = FR THEN q ELSE ROneMinus(q)), em[1][path[1]])
    ELSE LogAdd(LogAdd(PathScore(em, p, q, path, t - 1),
                       Log(IF path[t - 1] = path[t] THEN p ELSE ROneMinus(p))),
                em[t][path[t]])

\* the emission scores identify computed for the tokens of the call
CallEmissions ==
    emissions(scores_upto(ident.model, ident.lex_weight, call.tokens, Len(call.tokens)),
              Len(call.tokens))

ByViterbi ==
    call.op = "identify" /\ call.method = "viterbi" /\ call.ret = "list" /\ call.nscore > 0

\* C3: the path identify_viterbi returns is globally optimal: its total log
\* score is at least that of each of the 2^len label paths.
C3_ViterbiOptimal ==
    ByViterbi =>
        LET em == CallEmissions
            returned == PathScore(em, call.p, call.q, call.labels, Len(call.tokens))
        IN  \A path \in [1..Len(call.tokens) -> Langs] :
                LogGeq(returned, PathScore(em, call.p, call.q, path, Len(call.tokens)))

\* a Viterbi decoding of three tokens that switches language on the way
C3_Witness ==
    /\ ByViterbi
    /\ Len(call.tokens) = 3
    /\ call.p = <<3, 4>>
    /\ call.labels[1] # call.labels[2]

\* what the call returned or raised
Result == [ret |-> call.ret, err |-> call.err, labels |-> call.labels]

\* what independent mode returns or raises for the tokens of the call
Independent ==
    LET r == identify(ident.model, ident.lex_weight, call.tokens, "independent",
                      call.p, call.q)
    IN  [ret |-> r.ret, err |-> r.err, labels |-> r.labels]

ViterbiAtHalf ==
    /\ call.op = "identify"
    /\ call.method = "viterbi"
    /\ call.p = <<1, 2>>
    /\ call.tokens # <<>>

\* C4 as stated: with transition probability 1/2, viterbi mode returns the
\* same labels as independent mode whatever the start probability is.
C4_SameAsIndependent == ViterbiAtHalf => Result = Independent

\* C4: with transition probability 1/2 and start probability 1/2, viterbi
\* mode ends as independent mode does on every non-empty token sequence:
\* the same label list, or the same error.
C4_SameAsIndependentAtHalf ==
    (ViterbiAtHalf /\ call.q = <<1, 2>>) => Result = Independent

\* a decoding at 1/2, 1/2 of two words (no IGNORE, no override) that are
\* assigned different languages
C4_Witness ==
    /\ ViterbiAtHalf
    /\ call.q = <<1, 2>>
    /\ call.ret = "list"
    /\ Len(call.tokens) >= 2
    /\ \A i \in 1..Len(call.tokens) : call.tokens[i] # IGNORE
    /\ call.labels[1] # call.labels[2]

\* C5: score returns a value per language for every token and never raises,
\* the tokens too short to yield an n-gram included.
C5_ScoreNeverRaises == call.op = "score" => call.err = "none"

\* C6: after train, char_score of every word of the training lexicon uses
\* only direct entries of start_prob and trans_prob, for every order n.
C6_TrainingWordsDirect ==
    \A lang \in Langs :
        lm[lang].trained =>
            \A l \in 1..Len(lex_file[lang]) :
                UsesOnlyDirectEntries(lm[lang].tables, lex_file[lang][l][1])

RECURSIVE WithoutIgnore(_, _, _)
\* the elements xs[i], i <= n, at the positions of the tokens other than IGNORE
WithoutIgnore(tokens, xs, n) ==
    IF n = 0 THEN <<>>
    ELSE IF tokens[n] = IGNORE THEN WithoutIgnore(tokens, xs, n - 1)
    ELSE Append(WithoutIgnore(tokens, xs, n - 1), xs[n])

\* C7: the labels of the tokens other than IGNORE are the labels identify
\* gives them once the IGNORE tokens are deleted from the sequence.
C7_IgnoreNoInfluence ==
    (/\ Decoded
     /\ call.ret = "list"
     /\ \E i \in 1..Len(call.tokens) : call.tokens[i] # IGNORE)
        => LET kept == WithoutIgnore(call.tokens, call.tokens, Len(call.tokens))
               r == identify(ident.model, ident.lex_weight, kept, call.method,
                             call.p, call.q)
           IN  /\ r.ret = "list"
               /\ r.labels = WithoutIgnore(call.tokens, call.labels, Len(call.tokens))

Outcome3(r) == [ret |-> r.ret, err |-> r.err, labels |-> r.labels]

Override ==
    call.op = "identify" /\ Len(call.tokens) = 1 /\ lower(call.tokens[1]) = SEA

\* C8: a single token equal to "sea" whatever its case is labelled with the
\* first language in every mode, without a call of score; on every other
\* sequence identify ends as the selected decoding mode does.
C8_SeaOverride ==
    call.op = "identify" =>
        IF Override
        THEN /\ Result = [ret |-> "list", err |-> "none", labels |-> <<FR>>]
             /\ call.nscore = 0
        ELSE /\ call.method = "independent" =>
                   Result = Outcome3(identify_independent(ident.model, ident.lex_weight,
                                                          call.tokens))
             /\ call.method = "viterbi" =>
                   Result = Outcome3(identify_viterbi(ident.model, ident.lex_weight,
                                                      call.tokens, call.p, call.q))

\* the override has decided a token ("Sea", capitalised) that the models
\* by themselves assign to English
C8_Witness ==
    /\ Override
    /\ call.tokens[1] # SEA
    /\ call.method = "viterbi"
    /\ call.labels = <<FR>>
    /\ identify_independent(ident.model, ident.lex_weight, call.tokens).labels = <<EN>>

\* the tables LanguageModel.load builds from the model and lexicon files
Loaded == [lang \in Langs |-> load(lang).tables]

InLexicon(lang, word) ==
    \E l \in 1..Len(lex_file[lang]) : NormWord(lex_file[lang][l][1]) = NormWord(word)

\* C10: score takes the character-only fallback if and only if the token is
\* an entry of neither lexicon.
C10_FallbackIffAbsent ==
    (call.op = "score" /\ call.err = "none" /\ call.tokens[1] # IGNORE)
        => (call.fallback <=>
               ~(InLexicon(FR, call.tokens[1]) \/ InLexicon(EN, call.tokens[1])))

\* the two log-domain numbers are equal
Tied(v, w) == LogGeq(v, w) /\ LogGeq(w, v)

\* the tables V and S identify_viterbi builds for the call
CallTables ==
    viterbi_tables(CallEmissions, call.p, call.q, Len(call.tokens) - 1)

\* at position t (1-based, t >= 2) both predecessor languages give the same
\* value for V[t][lang]
TiedPredecessors(tab, em, t, lang) ==
    Tied(term(tab[t - 1].V, trans_p(call.p), em[t], FR, lang),
         term(tab[t - 1].V, trans_p(call.p), em[t], EN, lang))

\* C11: ties go to the earliest-enumerated language: where both predecessor
\* languages give the same value for V[t][lang] the backpointer S[t][lang]
\* is the first language, and where the two final values V[last] are equal
\* the final label is the first language.
C11_FirstMaxOnTies ==
    ByViterbi =>
        LET em == CallEmissions
            tab == CallTables
            n == Len(call.tokens)
        IN  /\ \A t \in 2..n, lang \in Langs :
                  TiedPredecessors(tab, em, t, lang) => tab[t].S[lang] = FR
            /\ Tied(tab[n].V[FR], tab[n].V[EN]) => call.labels[n] = FR

\* a decoding of three tokens, a word in the middle, with tied predecessors
\* at the word and tied final values
C11_Witness ==
    /\ ByViterbi
    /\ Len(call.tokens) = 3
    /\ call.tokens[2] \notin {IGNORE, <<>>}
    /\ TiedPredecessors(CallTables, CallEmissions, 2, EN)
    /\ Tied(CallTables[3].V[FR], CallTables[3].V[EN])
    /\ call.labels[3] = FR

EmptyInput == call.op = "identify" /\ call.tokens = <<>>

\* C12 as stated: on the empty token sequence identify ends in an error and
\* returns no label list, in viterbi mode and in independent mode alike.
C12_EmptyIsFatal == (EmptyInput /\ Decoded) => call.ret = "raise"

\* C12: on the empty token sequence identify raises IndexError in viterbi
\* mode, before any call of score, and returns the empty list in
\* independent mode.
C12_EmptyByMode ==
    EmptyInput =>
        /\ call.method = "viterbi" =>
              /\ Result = [ret |-> "raise", err |-> "IndexError", labels |-> <<>>]
              /\ call.nscore = 0
        /\ call.method = "independent" =>
              Result = [ret |-> "list", err |-> "none", labels |-> <<>>]

\* viterbi mode has raised on the empty sequence
C12_Witness ==
    /\ EmptyInput
    /\ call.method = "viterbi"
    /\ call.ret = "raise"
    /\ call.err = "IndexError"

\* a line of the file lacks the frequency field or has a frequency that
\* is not a number
Malformed(file) ==
    \E l \in 1..Len(file) :
        \/ Len(file[l]) < 2
        \/ Len(file[l][2]) = 0
        \/ \E i \in 1..Len(file[l][2]) : file[l][2][i] \notin Digits

\* C13: on a lexicon with a malformed line train raises and leaves
\* start_prob and trans_prob (and the rest of the model) exactly as they
\* were before the call, and the constructor raises and builds no model.
C13_MalformedLexicon ==
    [][/\ (call.op = "none" /\ call'.op = "train" /\ Malformed(lex_file[call'.lang])) =>
             /\ call'.ret = "raise"
             /\ lm'[call'.lang] = lm[call'.lang]
       /\ (call.op = "none" /\ call'.op = "LanguageModel"
              /\ Malformed(lex_file[call'.lang])) =>
             /\ call'.ret = "raise"
             /\ lm'[call'.lang].state = "failed"]_vars

\* train has raised on a lexicon whose last line is malformed, on a model
\* the constructor had built from the lexicon as it was before
C13_Witness ==
    /\ call.op = "train"
    /\ call.ret = "raise"
    /\ lm[call.lang].state = "built"
    /\ lex_file[call.lang][Len(lex_file[call.lang])] \in MalformedLines
    /\ lm[call.lang].tables.trans_prob = <<>>

=============================================================================
